---------------------------- MODULE Spec2Model ----------------------------
(***************************************************************************)
(* Model of the EventManagement component                                  *)
(* (src/eventfrontend/src/components/EventManagement.jsx): the React state *)
(* of the component, its handlers, the requests it has in flight and the   *)
(* event API it talks to.                                                  *)
(*                                                                         *)
(* JavaScript strings are sequences of one-character strings, so that      *)
(* trim(), template literals and toString() are computed.  A character     *)
(* outside ASCII is written "U+XXXX".  A JavaScript value is a record      *)
(* [kind, chars]: kind is "str", "num" or "null" and chars is what         *)
(* toString() gives.  A JavaScript object is a sequence of [k, v] pairs in *)
(* the order of its own keys.                                              *)
(***************************************************************************)
EXTENDS Integers, Sequences, FiniteSets

(* ------------------------------ bounds --------------------------------- *)

\* Requests the component may issue in one run (follow-up list fetches
\* included).
MaxReq == 3

\* Records the event API holds at most.
MaxStore == 2

(* --------------------------- JavaScript values ------------------------- *)

Str(cs) == [kind |-> "str", chars |-> cs]

Num(cs) == [kind |-> "num", chars |-> cs]

Undefined == <<"u", "n", "d", "e", "f", "i", "n", "e", "d">>

WhiteSpace == {" ", "\t"}

\* !v: null, "" and 0 are falsy
Falsy(v) ==
  \/ v.kind = "null"
  \/ v.kind = "str" /\ v.chars = <<>>
  \/ v.kind = "num" /\ v.chars = <<"0">>

\* v.toString()
toString(v) == v.chars

RECURSIVE TrimStart(_)
TrimStart(s) ==
  IF s /= <<>> /\ Head(s) \in WhiteSpace THEN TrimStart(Tail(s)) ELSE s

RECURSIVE TrimEnd(_)
TrimEnd(s) ==
  IF s /= <<>> /\ s[Len(s)] \in WhiteSpace
  THEN TrimEnd(SubSeq(s, 1, Len(s) - 1))
  ELSE s

\* s.trim()
Trim(s) == TrimEnd(TrimStart(s))

(* --------------------------- JavaScript objects ------------------------ *)

Has(o, key) == \E i \in 1..Len(o) : o[i].k = key

\* o[key] of a key the object has
Get(o, key) == o[CHOOSE i \in 1..Len(o) : o[i].k = key].v

\* { ...o, [key]: value }: an own key keeps its place, a new key goes last
Spread(o, key, value) ==
  IF Has(o, key)
  THEN [i \in 1..Len(o) |-> IF o[i].k = key THEN [k |-> key, v |-> value] ELSE o[i]]
  ELSE Append(o, [k |-> key, v |-> value])

\* `${o[key]}`
Template(o, key) == IF Has(o, key) THEN toString(Get(o, key)) ELSE Undefined

Fields == <<"id", "name", "date", "location", "organizer">>

FieldSet == {Fields[i] : i \in 1..Len(Fields)}

\* the characters of a key, for the messages that quote it
Spell ==
  [id |-> <<"i", "d">>,
   name |-> <<"n", "a", "m", "e">>,
   date |-> <<"d", "a", "t", "e">>,
   location |-> <<"l", "o", "c", "a", "t", "i", "o", "n">>,
   organizer |-> <<"o", "r", "g", "a", "n", "i", "z", "e", "r">>]

\* { id: "", name: "", date: "", location: "", organizer: "" }
EmptyEvent == [i \in 1..Len(Fields) |-> [k |-> Fields[i], v |-> Str(<<>>)]]

(* ------------------------------- messages ------------------------------ *)

MsgFetchFailed ==
  <<"F", "a", "i", "l", "e", "d", " ", "t", "o", " ", "f", "e", "t", "c",
    "h", " ", "e", "v", "e", "n", "t", "s", ".", " ", "C", "h", "e", "c",
    "k", " ", "b", "a", "c", "k", "e", "n", "d", " ", "U", "R", "L", " ",
    "o", "r", " ", "C", "O", "R", "S", ".">>

MsgFillPrefix ==
  <<"P", "l", "e", "a", "s", "e", " ", "f", "i", "l", "l", " ", "o", "u",
    "t", " ", "t", "h", "e", " ">>

MsgFillSuffix ==
  <<" ", "f", "i", "e", "l", "d", ".">>

MsgAdded ==
  <<"U+2705", " ", "E", "v", "e", "n", "t", " ", "a", "d", "d", "e", "d",
    " ", "s", "u", "c", "c", "e", "s", "s", "f", "u", "l", "l", "y", ".">>

MsgAddError ==
  <<"U+274C", " ", "E", "r", "r", "o", "r", " ", "a", "d", "d", "i", "n",
    "g", " ", "e", "v", "e", "n", "t", ".">>

MsgUpdated ==
  <<"U+2705", " ", "E", "v", "e", "n", "t", " ", "u", "p", "d", "a", "t",
    "e", "d", " ", "s", "u", "c", "c", "e", "s", "s", "f", "u", "l", "l",
    "y", ".">>

MsgUpdateError ==
  <<"U+274C", " ", "E", "r", "r", "o", "r", " ", "u", "p", "d", "a", "t",
    "i", "n", "g", " ", "e", "v", "e", "n", "t", ".">>

MsgDeleted ==
  <<"U+1F5D1", "U+FE0F", " ", "E", "v", "e", "n", "t", " ", "d", "e", "l",
    "e", "t", "e", "d", " ", "s", "u", "c", "c", "e", "s", "s", "f", "u",
    "l", "l", "y", ".">>

MsgDeleteError ==
  <<"U+274C", " ", "E", "r", "r", "o", "r", " ", "d", "e", "l", "e", "t",
    "i", "n", "g", " ", "e", "v", "e", "n", "t", ".">>

MsgEnterId ==
  <<"U+26A0", "U+FE0F", " ", "E", "n", "t", "e", "r", " ", "a", "n", " ",
    "e", "v", "e", "n", "t", " ", "I", "D", " ", "t", "o", " ", "f", "e",
    "t", "c", "h", ".">>

MsgNotFound ==
  <<"U+274C", " ", "E", "v", "e", "n", "t", " ", "n", "o", "t", " ", "f",
    "o", "u", "n", "d", ".">>

MsgEditingPrefix ==
  <<"U+270F", "U+FE0F", " ", "E", "d", "i", "t", "i", "n", "g", " ", "e",
    "v", "e", "n", "t", " ", "w", "i", "t", "h", " ", "I", "D", " ">>

(* ------------------------------ the inputs ----------------------------- *)

Launch == <<"L", "a", "u", "n", "c", "h">>

Day == <<"2", "0", "2", "5", "-", "0", "1", "-", "0", "1">>

\* What the inputs hand to handleChange, field by field.
Typed ==
  [id |-> {<<"1">>},
   name |-> {<<" ">>, Launch},
   date |-> {Day},
   location |-> {<<"H", "Q">>},
   organizer |-> {<<>>, <<"A", "l", "i", "c", "e">>}]

\* What the lookup's input hands to setIdToFetch.
TypedId == {<<>>, <<"2">>}

\* A record of the API with a numeric id and without organizer.
RowShort ==
  <<[k |-> "id", v |-> Num(<<"2">>)],
    [k |-> "name", v |-> Str(Launch)],
    [k |-> "date", v |-> Str(Day)],
    [k |-> "location", v |-> Str(<<"H", "Q">>)]>>

\* What the API may hold when the component mounts.
InitStores == {<<RowShort>>}

\* The shapes of the body of a list response: an array, an object with an
\* array under data, anything else.
Shapes == {"array", "envelope", "other"}

(* ------------------------------- the state ----------------------------- *)

VARIABLES
  events,        \* useState([])
  event,         \* useState({ id: "", ... }): the draft
  idToFetch,     \* useState("")
  fetchedEvent,  \* useState(null): <<>> is null, <<r>> is the record r
  message,       \* useState("")
  editMode,      \* useState(false)
  mounted,       \* the effect of the first render has run
  reqs,          \* the requests awaited by a handler
  nextReq,       \* the number the next request gets
  store,         \* the records the API holds
  listed,        \* the list fetch applied last and the newest one applied
  budget         \* the requests the run may issue in all

vars == <<events, event, idToFetch, fetchedEvent, message, editMode,
          mounted, reqs, nextReq, store, listed, budget>>

client == <<events, event, idToFetch, fetchedEvent, message, editMode>>

\* A request as it leaves the component.  origin is the handler that
\* called fetchAllEvents ("load" for the effect), body the record sent,
\* arg the id in the path; snap and clean remember, for an update, the
\* events at the trigger and that nothing has touched events, the draft
\* or the mode since.
Request(kind, origin, body, arg) ==
  [id |-> nextReq, kind |-> kind, origin |-> origin, body |-> body,
   arg |-> arg, phase |-> "sent", rows |-> <<>>,
   snap |-> IF kind = "update" THEN events ELSE <<>>, clean |-> TRUE]

Mutating == {"add", "update", "delete"}

\* Every mutating request in flight may still call fetchAllEvents.
Owed == Cardinality({r \in reqs : r.kind \in Mutating})

Room(n) == (nextReq - 1) + Owed + n <= budget

Touched(rs) == {[r EXCEPT !.clean = FALSE] : r \in rs}

Init ==
  /\ events = <<>>
  /\ event = EmptyEvent
  /\ idToFetch = <<>>
  /\ fetchedEvent = <<>>
  /\ message = <<>>
  /\ editMode = FALSE
  /\ mounted = FALSE
  /\ reqs = {}
  /\ nextReq = 1
  /\ store \in InitStores
  /\ listed = [last |-> 0, newest |-> 0]
  /\ budget = MaxReq

(* ------------------------------ validation ----------------------------- *)

\* Blank without the trim().
Blank_NoTrim(v) == Falsy(v) \/ toString(v) = <<>>

\* the test of the loop body of validateForm
Blank(v) == Falsy(v) \/ Trim(toString(v)) = <<>>

\* the loop of validateForm: the place of the first blank key from i on,
\* 0 when there is none
RECURSIVE FirstBlank(_, _)
FirstBlank(ev, i) ==
  IF i > Len(ev) THEN 0
  ELSE IF Blank(ev[i].v) THEN i
  ELSE FirstBlank(ev, i + 1)

\* validateForm: what it returns and the message it sets
validateForm(ev) ==
  LET i == FirstBlank(ev, 1) IN
  IF i = 0
  THEN [valid |-> TRUE, message |-> <<>>]
  ELSE [valid |-> FALSE,
        message |-> MsgFillPrefix \o Spell[ev[i].k] \o MsgFillSuffix]

(* ------------------------------ the handlers --------------------------- *)

\* fetchAllEvents up to its await: the requests with GET /all added
fetchAllEvents(rs, origin) ==
  rs \cup {Request("all", origin, <<>>, <<>>)}

\* useEffect(() => { fetchAllEvents(); }, [])
InitialLoad ==
  /\ ~mounted
  /\ mounted' = TRUE
  /\ reqs' = fetchAllEvents(reqs, "load")
  /\ nextReq' = nextReq + 1
  /\ UNCHANGED <<client, store, listed, budget>>

\* handleChange that assigns to the draft in place (event[name] = value):
\* after Edit the draft is the row object of events, which changes with it.
handleChange_InPlace(name, value) ==
  /\ mounted
  /\ event' = Spread(event, name, Str(value))
  /\ events' = [i \in 1..Len(events) |->
                  IF editMode /\ events[i] = event
                  THEN Spread(event, name, Str(value))
                  ELSE events[i]]
  /\ reqs' = Touched(reqs)
  /\ UNCHANGED <<idToFetch, fetchedEvent, message, editMode,
                 mounted, nextReq, store, listed, budget>>

handleChange(name, value) ==
  /\ mounted
  /\ event' = Spread(event, name, Str(value))
  /\ reqs' = Touched(reqs)
  /\ UNCHANGED <<events, idToFetch, fetchedEvent, message, editMode,
                 mounted, nextReq, store, listed, budget>>

setIdToFetch(value) ==
  /\ mounted
  /\ idToFetch' = value
  /\ UNCHANGED <<events, event, fetchedEvent, message, editMode,
                 mounted, reqs, nextReq, store, listed, budget>>

\* Submit that sets the message of a failed validation and sends the
\* request all the same.
Submit_SendsAnyway(kind) ==
  LET v == validateForm(event) IN
  /\ Room(2)
  /\ message' = IF v.valid THEN message ELSE v.message
  /\ reqs' = reqs \cup {Request(kind, "user", event, <<>>)}
  /\ nextReq' = nextReq + 1
  /\ UNCHANGED <<events, event, idToFetch, fetchedEvent, editMode, mounted,
                 store, listed, budget>>

\* handleAddEvent / handleUpdateEvent up to the await
Submit(kind) ==
  LET v == validateForm(event) IN
  IF ~v.valid
  THEN /\ message' = v.message
       /\ UNCHANGED <<events, event, idToFetch, fetchedEvent, editMode,
                      mounted, reqs, nextReq, store, listed, budget>>
  ELSE /\ Room(2)
       /\ reqs' = reqs \cup {Request(kind, "user", event, <<>>)}
       /\ nextReq' = nextReq + 1
       /\ UNCHANGED <<client, mounted, store, listed, budget>>

\* handleAddEvent with the Add Event button rendered in both modes.
handleAddEvent_Always ==
  /\ mounted
  /\ Submit("add")

\* the Add Event button, rendered when !editMode
handleAddEvent ==
  /\ mounted
  /\ ~editMode
  /\ Submit("add")

\* the Update Event button, rendered when editMode
handleUpdateEvent ==
  /\ mounted
  /\ editMode
  /\ Submit("update")

\* the Delete button of row i
handleDeleteEvent(i) ==
  /\ mounted
  /\ i \in 1..Len(events)
  /\ Room(2)
  /\ reqs' = reqs \cup {Request("delete", "user", <<>>, Template(events[i], "id"))}
  /\ nextReq' = nextReq + 1
  /\ UNCHANGED <<client, mounted, store, listed, budget>>

\* handleFetchById that clears the result when no id is entered.
handleFetchById_Clears ==
  /\ mounted
  /\ IF idToFetch = <<>>
     THEN /\ message' = MsgEnterId
          /\ fetchedEvent' = <<>>
          /\ UNCHANGED <<events, event, idToFetch, editMode, mounted, reqs,
                         nextReq, store, listed, budget>>
     ELSE /\ Room(1)
          /\ reqs' = reqs \cup {Request("get", "user", <<>>, idToFetch)}
          /\ nextReq' = nextReq + 1
          /\ UNCHANGED <<client, mounted, store, listed, budget>>

\* handleFetchById up to the await
handleFetchById ==
  /\ mounted
  /\ IF idToFetch = <<>>
     THEN /\ message' = MsgEnterId
          /\ UNCHANGED <<events, event, idToFetch, fetchedEvent, editMode,
                         mounted, reqs, nextReq, store, listed, budget>>
     ELSE /\ Room(1)
          /\ reqs' = reqs \cup {Request("get", "user", <<>>, idToFetch)}
          /\ nextReq' = nextReq + 1
          /\ UNCHANGED <<client, mounted, store, listed, budget>>

\* the Edit button of row i
handleEdit(i) ==
  /\ mounted
  /\ i \in 1..Len(events)
  /\ event' = events[i]
  /\ editMode' = TRUE
  /\ message' = MsgEditingPrefix \o Template(events[i], "id")
  /\ reqs' = Touched(reqs)
  /\ UNCHANGED <<events, idToFetch, fetchedEvent, mounted, nextReq, store,
                 listed, budget>>

\* resetForm that clears the message too.
resetForm_ClearsMessage ==
  /\ mounted
  /\ editMode
  /\ event' = EmptyEvent
  /\ editMode' = FALSE
  /\ message' = <<>>
  /\ reqs' = Touched(reqs)
  /\ UNCHANGED <<events, idToFetch, fetchedEvent, mounted, nextReq,
                 store, listed, budget>>

\* the Cancel button, rendered when editMode
resetForm ==
  /\ mounted
  /\ editMode
  /\ event' = EmptyEvent
  /\ editMode' = FALSE
  /\ reqs' = Touched(reqs)
  /\ UNCHANGED <<events, idToFetch, fetchedEvent, message, mounted, nextReq,
                 store, listed, budget>>

(* ------------------------------ the event API -------------------------- *)

\* the id a record is stored under, as the path of a request spells it
IdOf(row) == Template(row, "id")

Holds(id) == \E i \in 1..Len(store) : IdOf(store[i]) = id

Without(s, id) == SelectSeq(s, LAMBDA row : IdOf(row) /= id)

Replaced(s, row) ==
  [i \in 1..Len(s) |-> IF IdOf(s[i]) = IdOf(row) THEN row ELSE s[i]]

Answered(r, rows) == [r EXCEPT !.phase = "answered", !.rows = rows]

\* The API serves request r and answers with success; it acts on the
\* records it holds, which are keyed by id.  A request that it rejects, or
\* that the network loses, is not served: it fails in its completion.
ServerAnswer(r) ==
  /\ r \in reqs
  /\ r.phase = "sent"
  /\ \/ /\ r.kind = "all"
        /\ reqs' = (reqs \ {r}) \cup {Answered(r, store)}
        /\ store' = store
     \/ /\ r.kind = "add"
        /\ Len(store) < MaxStore
        /\ ~Holds(IdOf(r.body))
        /\ store' = Append(store, r.body)
        /\ reqs' = (reqs \ {r}) \cup {Answered(r, <<>>)}
     \/ /\ r.kind = "update"
        /\ Holds(IdOf(r.body))
        /\ store' = Replaced(store, r.body)
        /\ reqs' = (reqs \ {r}) \cup {Answered(r, <<>>)}
     \/ /\ r.kind = "delete"
        /\ Holds(r.arg)
        /\ store' = Without(store, r.arg)
        /\ reqs' = (reqs \ {r}) \cup {Answered(r, <<>>)}
     \/ /\ r.kind = "get"
        /\ \E i \in 1..Len(store) :
             /\ IdOf(store[i]) = r.arg
             /\ reqs' = (reqs \ {r}) \cup {Answered(r, <<store[i]>>)}
        /\ store' = store
  /\ UNCHANGED <<client, mounted, nextReq, listed, budget>>

\* How the promise of request r may settle: it may always reject, and it
\* may resolve once the API has answered.
Settles(r) == IF r.phase = "answered" THEN {TRUE, FALSE} ELSE {FALSE}

(* ---------------------------- the completions -------------------------- *)

\* Listed without the branch for an array under data.
Listed_NoEnvelope(shape, rows) ==
  IF shape = "array" THEN rows ELSE <<>>

\* Array.isArray(data) ? data : data && Array.isArray(data.data) ? data.data : []
Listed(shape, rows) ==
  IF shape = "array" THEN rows
  ELSE IF shape = "envelope" THEN rows
  ELSE <<>>

\* fetchAllEventsDone with request sequencing: the response of a request
\* older than one already applied is dropped.
fetchAllEventsDone_Sequenced(r, ok, shape) ==
  /\ r \in reqs
  /\ r.kind = "all"
  /\ ok \in Settles(r)
  /\ IF r.id < listed.newest
     THEN UNCHANGED <<events, message>>
     ELSE IF ok
          THEN /\ events' = Listed(shape, r.rows)
               /\ message' = message
          ELSE /\ message' = MsgFetchFailed
               /\ events' = <<>>
  /\ reqs' = Touched(reqs \ {r})
  /\ listed' = [last |-> r.id,
                newest |-> IF r.id > listed.newest THEN r.id ELSE listed.newest]
  /\ UNCHANGED <<event, idToFetch, fetchedEvent, editMode, mounted, nextReq,
                 store, budget>>

\* fetchAllEventsDone without the setEvents([]) of the catch block.
fetchAllEventsDone_KeepsList(r, ok, shape) ==
  /\ r \in reqs
  /\ r.kind = "all"
  /\ ok \in Settles(r)
  /\ IF ok
     THEN /\ events' = Listed(shape, r.rows)
          /\ message' = message
     ELSE /\ message' = MsgFetchFailed
          /\ events' = events
  /\ reqs' = Touched(reqs \ {r})
  /\ listed' = [last |-> r.id,
                newest |-> IF r.id > listed.newest THEN r.id ELSE listed.newest]
  /\ UNCHANGED <<event, idToFetch, fetchedEvent, editMode, mounted, nextReq,
                 store, budget>>

\* fetchAllEvents from its await on; shape is the shape of response.data
fetchAllEventsDone(r, ok, shape) ==
  /\ r \in reqs
  /\ r.kind = "all"
  /\ ok \in Settles(r)
  /\ IF ok
     THEN /\ events' = Listed(shape, r.rows)
          /\ message' = message
     ELSE /\ message' = MsgFetchFailed
          /\ events' = <<>>
  /\ reqs' = Touched(reqs \ {r})
  /\ listed' = [last |-> r.id,
                newest |-> IF r.id > listed.newest THEN r.id ELSE listed.newest]
  /\ UNCHANGED <<event, idToFetch, fetchedEvent, editMode, mounted, nextReq,
                 store, budget>>

\* Submitted without resetForm() after a success.
Submitted_NoReset(r, ok, done, failed) ==
  /\ r \in reqs
  /\ ok \in Settles(r)
  /\ IF ok
     THEN /\ message' = done
          /\ reqs' = fetchAllEvents(reqs \ {r}, r.kind)
          /\ nextReq' = nextReq + 1
     ELSE /\ message' = failed
          /\ reqs' = reqs \ {r}
          /\ nextReq' = nextReq
  /\ UNCHANGED <<events, event, editMode, idToFetch, fetchedEvent, mounted,
                 store, listed, budget>>

\* Submitted with resetForm() in the catch block too.
Submitted_ResetOnFail(r, ok, done, failed) ==
  /\ r \in reqs
  /\ ok \in Settles(r)
  /\ IF ok
     THEN /\ message' = done
          /\ reqs' = fetchAllEvents(Touched(reqs \ {r}), r.kind)
          /\ nextReq' = nextReq + 1
     ELSE /\ message' = failed
          /\ reqs' = reqs \ {r}
          /\ nextReq' = nextReq
  /\ event' = EmptyEvent
  /\ editMode' = FALSE
  /\ UNCHANGED <<events, idToFetch, fetchedEvent, mounted, store, listed, budget>>

\* Submitted with fetchAllEvents() in the catch block too.
Submitted_RefetchOnFail(r, ok, done, failed) ==
  /\ r \in reqs
  /\ ok \in Settles(r)
  /\ message' = IF ok THEN done ELSE failed
  /\ reqs' = fetchAllEvents(Touched(reqs \ {r}), r.kind)
  /\ nextReq' = nextReq + 1
  /\ IF ok
     THEN /\ event' = EmptyEvent
          /\ editMode' = FALSE
     ELSE UNCHANGED <<event, editMode>>
  /\ UNCHANGED <<events, idToFetch, fetchedEvent, mounted, store, listed, budget>>

\* handleAddEvent / handleUpdateEvent from the await on
Submitted(r, ok, done, failed) ==
  /\ r \in reqs
  /\ ok \in Settles(r)
  /\ IF ok
     THEN /\ message' = done
          /\ reqs' = fetchAllEvents(Touched(reqs \ {r}), r.kind)
          /\ nextReq' = nextReq + 1
          /\ event' = EmptyEvent
          /\ editMode' = FALSE
     ELSE /\ message' = failed
          /\ reqs' = reqs \ {r}
          /\ UNCHANGED <<nextReq, event, editMode>>
  /\ UNCHANGED <<events, idToFetch, fetchedEvent, mounted, store, listed, budget>>

handleAddEventDone(r, ok) ==
  /\ r.kind = "add"
  /\ Submitted(r, ok, MsgAdded, MsgAddError)

handleUpdateEventDone(r, ok) ==
  /\ r.kind = "update"
  /\ Submitted(r, ok, MsgUpdated, MsgUpdateError)

\* handleDeleteEventDone with the resetForm() of the add and update
\* handlers.
handleDeleteEventDone_Reset(r, ok) ==
  /\ r \in reqs
  /\ r.kind = "delete"
  /\ ok \in Settles(r)
  /\ IF ok
     THEN /\ message' = MsgDeleted
          /\ reqs' = fetchAllEvents(Touched(reqs \ {r}), "delete")
          /\ nextReq' = nextReq + 1
          /\ event' = EmptyEvent
          /\ editMode' = FALSE
     ELSE /\ message' = MsgDeleteError
          /\ reqs' = reqs \ {r}
          /\ UNCHANGED <<nextReq, event, editMode>>
  /\ UNCHANGED <<events, idToFetch, fetchedEvent, mounted, store, listed, budget>>

\* handleDeleteEventDone with an empty catch block.
handleDeleteEventDone_Silent(r, ok) ==
  /\ r \in reqs
  /\ r.kind = "delete"
  /\ ok \in Settles(r)
  /\ IF ok
     THEN /\ message' = MsgDeleted
          /\ reqs' = fetchAllEvents(reqs \ {r}, "delete")
          /\ nextReq' = nextReq + 1
     ELSE /\ message' = message
          /\ reqs' = reqs \ {r}
          /\ nextReq' = nextReq
  /\ UNCHANGED <<events, event, idToFetch, fetchedEvent, editMode, mounted,
                 store, listed, budget>>

\* handleDeleteEvent from the await on
handleDeleteEventDone(r, ok) ==
  /\ r \in reqs
  /\ r.kind = "delete"
  /\ ok \in Settles(r)
  /\ IF ok
     THEN /\ message' = MsgDeleted
          /\ reqs' = fetchAllEvents(reqs \ {r}, "delete")
          /\ nextReq' = nextReq + 1
     ELSE /\ message' = MsgDeleteError
          /\ reqs' = reqs \ {r}
          /\ nextReq' = nextReq
  /\ UNCHANGED <<events, event, idToFetch, fetchedEvent, editMode, mounted,
                 store, listed, budget>>

\* handleFetchByIdDone that leaves the earlier result in place when the
\* request fails.
handleFetchByIdDone_KeepsStale(r, ok) ==
  /\ r \in reqs
  /\ r.kind = "get"
  /\ ok \in Settles(r)
  /\ IF ok
     THEN /\ fetchedEvent' = r.rows
          /\ message' = <<>>
     ELSE /\ fetchedEvent' = fetchedEvent
          /\ message' = MsgNotFound
  /\ reqs' = reqs \ {r}
  /\ UNCHANGED <<events, event, idToFetch, editMode, mounted, nextReq, store,
                 listed, budget>>

\* handleFetchById from the await on
handleFetchByIdDone(r, ok) ==
  /\ r \in reqs
  /\ r.kind = "get"
  /\ ok \in Settles(r)
  /\ IF ok
     THEN /\ fetchedEvent' = r.rows
          /\ message' = <<>>
     ELSE /\ fetchedEvent' = <<>>
          /\ message' = MsgNotFound
  /\ reqs' = reqs \ {r}
  /\ UNCHANGED <<events, event, idToFetch, editMode, mounted, nextReq, store,
                 listed, budget>>

(* --------------------------- the specification ------------------------- *)

Next ==
  \/ InitialLoad
  \/ \E name \in FieldSet : \E value \in Typed[name] : handleChange(name, value)
  \/ \E value \in TypedId : setIdToFetch(value)
  \/ handleAddEvent
  \/ handleUpdateEvent
  \/ \E i \in 1..MaxStore : handleDeleteEvent(i)
  \/ handleFetchById
  \/ \E i \in 1..MaxStore : handleEdit(i)
  \/ resetForm
  \/ \E r \in reqs : ServerAnswer(r)
  \/ \E r \in reqs : \E ok \in BOOLEAN : \E shape \in Shapes :
       fetchAllEventsDone(r, ok, shape)
  \/ \E r \in reqs : \E ok \in BOOLEAN : handleAddEventDone(r, ok)
  \/ \E r \in reqs : \E ok \in BOOLEAN : handleUpdateEventDone(r, ok)
  \/ \E r \in reqs : \E ok \in BOOLEAN : handleDeleteEventDone(r, ok)
  \/ \E r \in reqs : \E ok \in BOOLEAN : handleFetchByIdDone(r, ok)

Spec == Init /\ [][Next]_vars

(* ------------------------------- the claims ---------------------------- *)

\* the record a create or update request carries has the five fields, each
\* non-empty after trimming
Complete(body) ==
  \A f \in FieldSet : Has(body, f) /\ Trim(toString(Get(body, f))) /= <<>>

\* C1: every create or update request that has been issued carries a record
\* whose five fields id, name, date, location and organizer are all present
\* and non-empty after trimming, whether the draft was built by field edits
\* from the empty draft or loaded by the Edit button from a fetched row.
C1_SubmittedComplete ==
  \A r \in reqs : r.kind \in {"add", "update"} => Complete(r.body)

\* C2, as claimed: when the list fetch triggered by a successful create
\* resolves with a list, events is the server's list, the draft is the
\* all-empty record and the mode is Create, whatever overlapped.
C2_AsClaimed ==
  [][\A r \in reqs : \A shape \in {"array", "envelope"} :
       (r.origin = "add" /\ fetchAllEventsDone(r, TRUE, shape))
         => (events' = r.rows /\ event' = EmptyEvent /\ ~editMode')]_vars

\* C2, amended: the completion of a successful create leaves the draft
\* all-empty and the mode Create and issues one list fetch; when that fetch
\* resolves with a list, bare or under data, events becomes the server's
\* list as the server answered it to that fetch.
C2_CreateThenRefresh ==
  [][/\ \A r \in reqs :
          handleAddEventDone(r, TRUE)
            => /\ event' = EmptyEvent
               /\ ~editMode'
               /\ \E f \in reqs' \ reqs :
                    f.kind = "all" /\ f.origin = "add" /\ f.phase = "sent"
     /\ \A r \in reqs : \A shape \in {"array", "envelope"} :
          (r.origin = "add" /\ fetchAllEventsDone(r, TRUE, shape))
            => events' = r.rows]_vars

\* C2, witness: the fetch issued by a successful create was applied last,
\* events is the server's list with the created record in it, the draft is
\* empty and the mode Create.
C2_Witness ==
  /\ message = MsgAdded
  /\ listed.last = 3
  /\ events = store
  /\ \E i \in 1..Len(events) : IdOf(events[i]) = <<"1">>
  /\ event = EmptyEvent
  /\ ~editMode

\* C3, as claimed: when an update fails, events is what it was when the
\* update was triggered, the draft is the record that was submitted and the
\* mode is Edit.
C3_AsClaimed ==
  [][\A r \in reqs :
       handleUpdateEventDone(r, FALSE)
         => (events' = r.snap /\ event' = r.body /\ editMode')]_vars

\* C3, amended: when an update fails and no field edit, Edit, Cancel, list
\* fetch completion or successful create or update has happened since it
\* was triggered, events is what it was at the trigger, the draft is the
\* record that was submitted and the mode is Edit.
C3_FailedUpdateKeeps ==
  [][\A r \in reqs :
       (handleUpdateEventDone(r, FALSE) /\ r.clean)
         => (events' = r.snap /\ event' = r.body /\ editMode')]_vars

\* C3, witness: an update has failed and the draft is still the row that
\* was loaded and submitted.
C3_Witness ==
  /\ message = MsgUpdateError
  /\ editMode
  /\ events /= <<>>
  /\ event = events[1]
  /\ reqs = {}

\* C4, as claimed: the mode goes from Create to Edit only by the Edit
\* button and from Edit to Create only by Cancel or by the success of an
\* update.
C4_AsClaimed ==
  [][/\ (~editMode /\ editMode') => \E i \in 1..Len(events) : handleEdit(i)
     /\ (editMode /\ ~editMode')
          => \/ resetForm
             \/ \E r \in reqs : handleUpdateEventDone(r, TRUE)]_vars

\* C4, amended: the mode goes from Create to Edit only by the Edit button
\* and from Edit to Create only by Cancel or by the success of an update or
\* of a create; no completion of a delete, list fetch or lookup and no
\* failed request changes the mode.
C4_ModeMachine ==
  [][/\ (~editMode /\ editMode') => \E i \in 1..Len(events) : handleEdit(i)
     /\ (editMode /\ ~editMode')
          => \/ resetForm
             \/ \E r \in reqs : handleUpdateEventDone(r, TRUE)
             \/ \E r \in reqs : handleAddEventDone(r, TRUE)]_vars

\* C4, witness: a successful update has taken the mode back to Create.
C4_Witness ==
  /\ message = MsgUpdated
  /\ ~editMode
  /\ event = EmptyEvent

\* what a list fetch that settles leaves in events, by the claims: the
\* list of a response that is a list or has one under data, nothing
\* otherwise
Outcome(ok, shape, rows) ==
  IF ok /\ shape \in {"array", "envelope"} THEN rows ELSE <<>>

\* C5: events changes only when a list fetch settles, and then becomes the
\* outcome of that fetch whatever the order of issue: a response that
\* settles after the response of a later request is applied all the same.
C5_LastResolvedWins ==
  [][/\ events' /= events
          => \E r \in reqs : \E ok \in BOOLEAN : \E shape \in Shapes :
               fetchAllEventsDone(r, ok, shape)
     /\ \A r \in reqs : \A ok \in BOOLEAN : \A shape \in Shapes :
          fetchAllEventsDone(r, ok, shape)
            => events' = Outcome(ok, shape, r.rows)]_vars

\* C5, witness: the list fetch of the initial load was applied after the
\* one a create issued, and events shows its list, which lacks the record
\* the API holds since.
C5_Witness ==
  /\ listed.last = 1
  /\ listed.newest = 3
  /\ events = <<RowShort>>
  /\ Len(store) = 2

\* the list fetches a step issues
NewFetches == Cardinality({r \in reqs' : r.kind = "all" /\ r.id >= nextReq})

\* C6: a step issues one list fetch when it is the initial load or the
\* completion of a successful create, update or remove, and none otherwise;
\* the initial load happens once.
C6_WhenRefreshed ==
  [][/\ NewFetches =
          IF \/ InitialLoad
             \/ \E r \in reqs : handleAddEventDone(r, TRUE)
             \/ \E r \in reqs : handleUpdateEventDone(r, TRUE)
             \/ \E r \in reqs : handleDeleteEventDone(r, TRUE)
          THEN 1 ELSE 0
     /\ InitialLoad => (nextReq = 1 /\ reqs = {})]_vars

\* C6, witness: a remove has succeeded and its list fetch is in flight.
C6_Witness ==
  /\ message = MsgDeleted
  /\ \E r \in reqs : r.kind = "all" /\ r.origin = "delete"
  /\ Cardinality({r \in reqs : r.kind = "all"}) = 1

\* C7: when a list fetch resolves, events becomes the response when it is
\* a list, the list under data when it has one, and empty for any other
\* shape; message stays as it was.
C7_ShapesTolerated ==
  [][\A r \in reqs : \A shape \in Shapes :
       fetchAllEventsDone(r, TRUE, shape)
         => /\ events' = CASE shape = "array" -> r.rows
                           [] shape = "envelope" -> r.rows
                           [] OTHER -> <<>>
            /\ message' = message]_vars

\* C7, witness: the initial load has resolved with the records the API
\* holds and no message is shown.
C7_Witness ==
  /\ listed.last = 1
  /\ events = <<RowShort>>
  /\ message = <<>>
  /\ reqs = {}

\* C8: Fetch with no id entered issues no request, sets the warning and
\* leaves the lookup result, events, the draft and the mode alone; the
\* lookup result changes only when a lookup of a non-empty id settles.
C8_LookupGuard ==
  [][/\ (handleFetchById /\ idToFetch = <<>>)
          => /\ reqs' = reqs
             /\ nextReq' = nextReq
             /\ message' = MsgEnterId
             /\ UNCHANGED <<fetchedEvent, events, event, editMode>>
     /\ fetchedEvent' /= fetchedEvent
          => \E r \in reqs : \E ok \in BOOLEAN :
               r.arg /= <<>> /\ handleFetchByIdDone(r, ok)]_vars

\* C8, witness: Fetch was pressed with no id entered while an earlier
\* lookup result is shown.
C8_Witness ==
  /\ message = MsgEnterId
  /\ idToFetch = <<>>
  /\ fetchedEvent = <<RowShort>>
  /\ reqs = {}

\* C9: when a lookup resolves, the lookup result becomes the returned
\* record and message empty; when it fails, the lookup result becomes
\* absent and message the not-found text; events, the draft and the mode
\* stay as they were.
C9_LookupSettles ==
  [][\A r \in reqs :
       /\ handleFetchByIdDone(r, TRUE)
            => /\ fetchedEvent' = r.rows
               /\ message' = <<>>
               /\ UNCHANGED <<events, event, editMode>>
       /\ handleFetchByIdDone(r, FALSE)
            => /\ fetchedEvent' = <<>>
               /\ message' = MsgNotFound
               /\ UNCHANGED <<events, event, editMode>>]_vars

\* C9, witness: a lookup has failed and a second one has found the record
\* with the id entered; the not-found text is gone.
C9_Witness ==
  /\ fetchedEvent = <<RowShort>>
  /\ message = <<>>
  /\ idToFetch = <<"2">>
  /\ nextReq = 4
  /\ reqs = {}

(* --------------------- validation on its own --------------------------- *)

\* the strings a field of a draft is drawn from
Strings ==
  {<<>>, <<" ">>, <<"\t", " ">>, <<"a">>, <<" ", "a", " ">>}

\* the orders of the keys of a draft
Orders == {Fields, [i \in 1..Len(Fields) |-> Fields[Len(Fields) + 1 - i]]}

\* the drafts with the five fields
Drafts ==
  {[i \in 1..Len(Fields) |-> [k |-> o[i], v |-> Str(f[o[i]])]] :
     o \in Orders, f \in [FieldSet -> Strings]}

\* the form holds any draft, in either mode, and nothing is in flight
InitValidate ==
  /\ events = <<>>
  /\ event \in Drafts
  /\ idToFetch = <<>>
  /\ fetchedEvent = <<>>
  /\ message = <<>>
  /\ editMode \in BOOLEAN
  /\ mounted = TRUE
  /\ reqs = {}
  /\ nextReq = 1
  /\ store = <<>>
  /\ listed = [last |-> 0, newest |-> 0]
  /\ budget = MaxReq

NextValidate ==
  \/ handleAddEvent
  \/ handleUpdateEvent

SpecValidate == InitValidate /\ [][NextValidate]_vars

\* the places of the fields of a draft that are empty after trimming
Blanks(ev) == {i \in 1..Len(ev) : Trim(toString(ev[i].v)) = <<>>}

\* C10: a draft of five strings with exactly one of them empty or
\* whitespace-only fails validation with the message that names that
\* field, and nothing is sent; a draft of five strings none of which is
\* empty after trimming passes, its request is sent and no message is set.
C10_Validation ==
  [][(handleAddEvent \/ handleUpdateEvent)
       => /\ Cardinality(Blanks(event)) = 1
               => /\ reqs' = reqs
                  /\ \E i \in Blanks(event) :
                       message' = MsgFillPrefix \o Spell[event[i].k] \o MsgFillSuffix
          /\ Blanks(event) = {}
               => /\ \E r \in reqs' \ reqs :
                       r.kind \in {"add", "update"} /\ r.body = event
                  /\ message' = message]_vars

\* C10, witness: validation has named location, the one field of the draft
\* that is whitespace-only.
C10_Witness ==
  /\ message = MsgFillPrefix \o Spell["location"] \o MsgFillSuffix
  /\ reqs = {}
  /\ Cardinality(Blanks(event)) = 1
  /\ \E i \in Blanks(event) : event[i].k = "location" /\ event[i].v.chars /= <<>>

(* ------------------- a row with its own order of keys ------------------ *)

\* A record of the API whose keys are not in the form's order.
RowMixed ==
  <<[k |-> "id", v |-> Str(<<"3">>)],
    [k |-> "organizer", v |-> Str(<<"A", "l", "i", "c", "e">>)],
    [k |-> "location", v |-> Str(<<"H", "Q">>)],
    [k |-> "date", v |-> Str(Day)],
    [k |-> "name", v |-> Str(Launch)]>>

\* the component mounts against an API that holds that record
InitOrder ==
  /\ events = <<>>
  /\ event = EmptyEvent
  /\ idToFetch = <<>>
  /\ fetchedEvent = <<>>
  /\ message = <<>>
  /\ editMode = FALSE
  /\ mounted = FALSE
  /\ reqs = {}
  /\ nextReq = 1
  /\ store = <<RowMixed>>
  /\ listed = [last |-> 0, newest |-> 0]
  /\ budget = MaxReq

SpecOrder == InitOrder /\ [][Next]_vars

\* the fields of a draft that are empty after trimming
EmptyFields(ev) ==
  {f \in FieldSet : Has(ev, f) /\ Trim(toString(Get(ev, f))) = <<>>}

\* the first of them in the order id, name, date, location, organizer
FirstCanonical(ev) ==
  Fields[CHOOSE i \in 1..Len(Fields) :
           /\ Fields[i] \in EmptyFields(ev)
           /\ \A j \in 1..(i - 1) : Fields[j] \notin EmptyFields(ev)]

\* C11: when several fields of the draft are empty, validation names the
\* first of them in the order id, name, date, location, organizer, also
\* for a draft loaded by the Edit button from a row of the API and edited.
C11_CanonicalFirst ==
  [][((handleAddEvent \/ handleUpdateEvent)
        /\ Cardinality(EmptyFields(event)) >= 2)
       => message' = MsgFillPrefix \o Spell[FirstCanonical(event)] \o MsgFillSuffix]_vars

\* C12: when Add Event or Update Event is pressed on a draft with a field
\* that is empty after trimming, no request is issued, message becomes the
\* text that names a field of the draft that is empty, and the draft, the
\* mode, events and the lookup result stay as they were.
C12_RejectedLocally ==
  [][((handleAddEvent \/ handleUpdateEvent) /\ Blanks(event) /= {})
       => /\ reqs' = reqs
          /\ nextReq' = nextReq
          /\ \E i \in Blanks(event) :
               message' = MsgFillPrefix \o Spell[event[i].k] \o MsgFillSuffix
          /\ UNCHANGED <<event, editMode, events, fetchedEvent>>]_vars

\* C12, witness: Update Event was pressed on a row loaded by Edit whose
\* name had been blanked; the message names name, the draft and the mode
\* are kept and only the initial load was ever issued.
C12_Witness ==
  /\ message = MsgFillPrefix \o Spell["name"] \o MsgFillSuffix
  /\ editMode
  /\ Has(event, "name")
  /\ Get(event, "name") = Str(<<" ">>)
  /\ events = <<RowShort>>
  /\ reqs = {}
  /\ nextReq = 2

(* ------------------------------ the banner ----------------------------- *)

\* the lower-case letter of each upper-case letter
LowerCase ==
  [A |-> "a", B |-> "b", C |-> "c", D |-> "d", E |-> "e", F |-> "f",
   G |-> "g", H |-> "h", I |-> "i", J |-> "j", K |-> "k", L |-> "l",
   M |-> "m", N |-> "n", O |-> "o", P |-> "p", Q |-> "q", R |-> "r",
   S |-> "s", T |-> "t", U |-> "u", V |-> "v", W |-> "w", X |-> "x",
   Y |-> "y", Z |-> "z"]

\* s.toLowerCase()
toLowerCase(s) ==
  [i \in 1..Len(s) |-> IF s[i] \in DOMAIN LowerCase THEN LowerCase[s[i]] ELSE s[i]]

\* s.includes(part)
includes(s, part) ==
  \E i \in 0..(Len(s) - Len(part)) : SubSeq(s, i + 1, i + Len(part)) = part

\* the class of the banner that shows msg
Severity(msg) ==
  IF includes(toLowerCase(msg), <<"e", "r", "r", "o", "r">>)
  THEN "error"
  ELSE "success"

\* C13: the message a failed list fetch, create, update, remove or lookup
\* sets is shown with severity error, and the message a successful create,
\* update or remove sets is shown with severity success.
C13_Severity ==
  [][\A r \in reqs :
       /\ (\/ \E shape \in Shapes : fetchAllEventsDone(r, FALSE, shape)
           \/ handleAddEventDone(r, FALSE)
           \/ handleUpdateEventDone(r, FALSE)
           \/ handleDeleteEventDone(r, FALSE)
           \/ handleFetchByIdDone(r, FALSE))
            => Severity(message') = "error"
       /\ (\/ handleAddEventDone(r, TRUE)
           \/ handleUpdateEventDone(r, TRUE)
           \/ handleDeleteEventDone(r, TRUE))
            => Severity(message') = "success"]_vars

\* the message each completion sets, by the operation and how it settled
OwnText(kind, ok) ==
  CASE kind = "add" -> IF ok THEN MsgAdded ELSE MsgAddError
    [] kind = "update" -> IF ok THEN MsgUpdated ELSE MsgUpdateError
    [] kind = "delete" -> IF ok THEN MsgDeleted ELSE MsgDeleteError
    [] kind = "get" -> IF ok THEN <<>> ELSE MsgNotFound
    [] kind = "all" -> MsgFetchFailed

\* the completion of request r, settled as ok
Completes(r, ok) ==
  \/ handleAddEventDone(r, ok)
  \/ handleUpdateEventDone(r, ok)
  \/ handleDeleteEventDone(r, ok)
  \/ handleFetchByIdDone(r, ok)
  \/ \E shape \in Shapes : fetchAllEventsDone(r, ok, shape)

\* C14, as claimed: every completion of a list fetch, create, update,
\* remove or lookup overwrites message, so that no message of an earlier
\* operation is still shown after it.
C14_AsClaimed ==
  [][\A r \in reqs : \A ok \in BOOLEAN :
       Completes(r, ok)
         => IF r.kind = "all" /\ ok
            THEN message /= <<>> => message' /= message
            ELSE message' = OwnText(r.kind, ok)]_vars

\* C14, amended: every completion of a create, update, remove or lookup,
\* and every failed list fetch, overwrites message with the text of its own
\* outcome; a list fetch that resolves leaves message as it was.
C14_MessageOverwritten ==
  [][\A r \in reqs : \A ok \in BOOLEAN :
       Completes(r, ok)
         => IF r.kind = "all" /\ ok
            THEN message' = message
            ELSE message' = OwnText(r.kind, ok)]_vars

\* C14, witness: the list fetch issued by a successful remove has resolved
\* and the text of the remove is still shown.
C14_Witness ==
  /\ message = MsgDeleted
  /\ listed.last = 3
  /\ reqs = {}
  /\ events = store

(* ------------------------- the create-edit-update run ------------------ *)

\* Requests the run from an empty API to an updated record issues: the
\* initial load, the create, the update and a list fetch after each.
MaxScenarioReq == 5

LaunchV2 == <<"L", "a", "u", "n", "c", "h", " ", "v", "2">>

\* what the inputs hand to handleChange in this run
ScenarioTyped ==
  [id |-> {<<"1">>},
   name |-> {Launch, LaunchV2},
   date |-> {Day},
   location |-> {<<"H", "Q">>},
   organizer |-> {<<"A", "l", "i", "c", "e">>}]

\* the component mounts against an API that holds nothing
InitScenario ==
  /\ events = <<>>
  /\ event = EmptyEvent
  /\ idToFetch = <<>>
  /\ fetchedEvent = <<>>
  /\ message = <<>>
  /\ editMode = FALSE
  /\ mounted = FALSE
  /\ reqs = {}
  /\ nextReq = 1
  /\ store = <<>>
  /\ listed = [last |-> 0, newest |-> 0]
  /\ budget = MaxScenarioReq

\* the name the form holds
NameIs(chars) == Has(event, "name") /\ Get(event, "name") = Str(chars)

\* The user acts only when nothing is in flight, creates the record named
\* Launch and updates to the name Launch v2; every request succeeds and
\* every list comes as a list.
NextScenario ==
  \/ InitialLoad
  \/ /\ reqs = {}
     /\ \E name \in FieldSet : \E value \in ScenarioTyped[name] :
          handleChange(name, value)
  \/ /\ reqs = {}
     /\ NameIs(Launch)
     /\ handleAddEvent
  \/ /\ reqs = {}
     /\ \E i \in 1..MaxStore : handleEdit(i)
  \/ /\ reqs = {}
     /\ NameIs(LaunchV2)
     /\ handleUpdateEvent
  \/ \E r \in reqs : ServerAnswer(r)
  \/ \E r \in reqs : \E shape \in {"array", "envelope"} :
       fetchAllEventsDone(r, TRUE, shape)
  \/ \E r \in reqs : handleAddEventDone(r, TRUE)
  \/ \E r \in reqs : handleUpdateEventDone(r, TRUE)

SpecScenario == InitScenario /\ [][NextScenario]_vars

\* C15: in the run where the record with id 1 named Launch is created,
\* listed, loaded by Edit, renamed Launch v2 and updated, each step awaited,
\* the list fetch after the update leaves in events exactly one record, with
\* id 1 and the name Launch v2, an empty draft and the mode Create.
C15_Scenario ==
  [][\A r \in reqs : \A shape \in {"array", "envelope"} :
       (r.origin = "update" /\ fetchAllEventsDone(r, TRUE, shape))
         => /\ Len(events') = 1
            /\ Template(events'[1], "id") = <<"1">>
            /\ Template(events'[1], "name") = LaunchV2
            /\ event' = EmptyEvent
            /\ ~editMode']_vars

\* C15, witness: the run is over: the fifth request, the list fetch after
\* the update, has resolved and events shows the renamed record alone.
C15_Witness ==
  /\ message = MsgUpdated
  /\ listed.last = 5
  /\ reqs = {}
  /\ Len(events) = 1
  /\ Template(events[1], "name") = LaunchV2
  /\ event = EmptyEvent
  /\ ~editMode

(* ------------------------- frames of the handlers ---------------------- *)

\* the ids of the requests in flight
Flying(rs) == {r.id : r \in rs}

\* a step that sends nothing
NoRequest == nextReq' = nextReq /\ Flying(reqs') = Flying(reqs)

\* C16: Cancel leaves the empty draft and the mode Create and keeps the
\* message; Edit on a row leaves that row as the draft, the mode Edit and
\* the message naming the row's id; neither sends a request, and neither
\* changes events or the lookup result.
C16_ResetAndEdit ==
  [][/\ resetForm
          => /\ event' = EmptyEvent
             /\ ~editMode'
             /\ message' = message
             /\ NoRequest
             /\ UNCHANGED <<events, fetchedEvent>>
     /\ \A i \in 1..MaxStore :
          handleEdit(i)
            => /\ event' = events[i]
               /\ editMode'
               /\ message' = MsgEditingPrefix \o Template(events[i], "id")
               /\ NoRequest
               /\ UNCHANGED <<events, fetchedEvent>>]_vars

\* C16, witness: Edit on the row with id 2 and then Cancel: the draft is
\* empty again, the mode is Create and the message of Edit is still shown.
C16_Witness ==
  /\ event = EmptyEvent
  /\ ~editMode
  /\ message = MsgEditingPrefix \o <<"2">>
  /\ events = <<RowShort>>

\* the steps of the component other than the completion of a list fetch
OtherStep ==
  \/ InitialLoad
  \/ \E name \in FieldSet : \E value \in Typed[name] : handleChange(name, value)
  \/ \E value \in TypedId : setIdToFetch(value)
  \/ handleAddEvent
  \/ handleUpdateEvent
  \/ \E i \in 1..MaxStore : handleDeleteEvent(i)
  \/ handleFetchById
  \/ \E i \in 1..MaxStore : handleEdit(i)
  \/ resetForm
  \/ \E r \in reqs : \E ok \in BOOLEAN :
       \/ handleAddEventDone(r, ok)
       \/ handleUpdateEventDone(r, ok)
       \/ handleDeleteEventDone(r, ok)
       \/ handleFetchByIdDone(r, ok)

\* C17: no trigger and no completion of a create, update, remove or lookup,
\* and no typing, Edit or Cancel, changes events; a row shown in events
\* stays as it is while the draft loaded from it is edited.
C17_EventsFrame ==
  [][OtherStep => events' = events]_vars

\* C17, witness: the draft was loaded from the row shown and edited since:
\* it has the row's id and differs from the row, which events still shows.
C17_Witness ==
  /\ editMode
  /\ events = <<RowShort>>
  /\ message = MsgEditingPrefix \o <<"2">>
  /\ event /= RowShort
  /\ Has(event, "id")
  /\ Get(event, "id") = Get(RowShort, "id")

\* C18: when a create, update or remove fails, the completion sets the
\* message to the error text of the operation, leaves the draft, the mode,
\* events and the lookup result as they were, and sends no request.
C18_FailureFrame ==
  [][\A r \in reqs :
       \/ handleAddEventDone(r, FALSE)
       \/ handleUpdateEventDone(r, FALSE)
       \/ handleDeleteEventDone(r, FALSE)
       => /\ message' = OwnText(r.kind, FALSE)
          /\ UNCHANGED <<event, editMode, events, fetchedEvent, idToFetch>>
          /\ nextReq' = nextReq
          /\ Flying(reqs') = Flying(reqs) \ {r.id}]_vars

\* C18, witness: an update has failed in the mode Edit: its error text is
\* shown over the draft that was sent, and nothing is in flight.
C18_Witness ==
  /\ message = MsgUpdateError
  /\ editMode
  /\ event = RowShort
  /\ events = <<RowShort>>
  /\ reqs = {}

\* C19: when a list fetch fails, the completion empties events, sets the
\* message of the failed fetch, leaves the draft, the mode and the lookup
\* result as they were, and sends no request.
C19_FetchFailure ==
  [][\A r \in reqs : \A shape \in Shapes :
       fetchAllEventsDone(r, FALSE, shape)
         => /\ events' = <<>>
            /\ message' = MsgFetchFailed
            /\ UNCHANGED <<event, editMode, fetchedEvent, idToFetch>>
            /\ nextReq' = nextReq
            /\ Flying(reqs') = Flying(reqs) \ {r.id}]_vars

\* C19, witness: the list fetch after a remove has failed while a row was
\* being edited: the list shown is gone, the draft and the mode stay.
C19_Witness ==
  /\ message = MsgFetchFailed
  /\ events = <<>>
  /\ editMode
  /\ event = RowShort
  /\ listed.last = 3

\* the requests of a kind a step sends
Sent(kind) == {r \in reqs' : r.kind = kind /\ r.id >= nextReq}

\* C20: a step that sends a create starts in the mode Create and a step
\* that sends an update starts in the mode Edit.
C20_ModeGated ==
  [][/\ Sent("add") /= {} => ~editMode
     /\ Sent("update") /= {} => editMode]_vars

\* C20, witness: Edit was pressed on the row shown and Update Event sent
\* the draft from the mode Edit; nothing has been touched since.
C20_Witness ==
  /\ editMode
  /\ message = MsgEditingPrefix \o <<"2">>
  /\ \E r \in reqs : r.kind = "update" /\ r.clean /\ r.body = event
=============================================================================
